---- MODULE Spec2Model ----
(***************************************************************************)
(* Model of psychsim's pwl/plane.py: the class KeyedPlane (a hyperplane    *)
(* test made of (vector, threshold, comparison) triples) and the helper    *)
(* functions that build such tests.                                        *)
(*                                                                         *)
(* KeyedVector objects are mutable and are held by reference, so they live *)
(* in a heap (store); a KeyedPlane holds the heap index of each vector.    *)
(* Numbers are Python floats and ints whose values are whole numbers; they *)
(* are kept in two limbs so that values of 13 decimal digits, which the    *)
(* float formatting of Python 2 (str: 12 significant digits) cannot keep,  *)
(* are in reach.                                                           *)
(***************************************************************************)
EXTENDS Integers, Sequences, FiniteSets, TLC

VARIABLES store, tests, origin, last

vars == <<store, tests, origin, last>>

---------------------------------------------------------------------------
(* Numbers: value = hi * Limb + lo, 0 <= lo < Limb.                        *)

Limb == 1000 * 1000

Norm(h, l) == [hi |-> h + (l \div Limb), lo |-> l % Limb]

NumOf(i) == Norm(0, i)

Zero == NumOf(0)

NAdd(a, b) == Norm(a.hi + b.hi, a.lo + b.lo)

NSub(a, b) == Norm(a.hi - b.hi, a.lo - b.lo)

NNeg(a) == Norm(0 - a.hi, 0 - a.lo)

NScale(w, a) == Norm(w * a.hi, w * a.lo)

NLess(a, b) == a.hi < b.hi \/ (a.hi = b.hi /\ a.lo < b.lo)

NAbs(a) == IF a.hi < 0 THEN NNeg(a) ELSE a

\* Python 2's cmp on two numbers: -1, 0 or 1.
cmp(a, b) == IF NLess(a, b) THEN 0 - 1 ELSE IF NLess(b, a) THEN 1 ELSE 0

\* The number of decimal digits of a natural number.
RECURSIVE IntDigits(_)
IntDigits(i) == IF i < 10 THEN 1 ELSE 1 + IntDigits(i \div 10)

NumDigits(n) == IF n.hi = 0 THEN IntDigits(n.lo) ELSE 6 + IntDigits(n.hi)

RECURSIVE Pow10(_)
Pow10(k) == IF k = 0 THEN 1 ELSE 10 * Pow10(k - 1)

\* The significant digits str() keeps of a Python 2 float ('%.12g').
FloatStrPrecision == 12

\* n >= 0 rounded to FloatStrPrecision significant digits, ties to even (the
\* digits dropped, at most four, lie in the low limb).
RoundPos(n) ==
    LET k == NumDigits(n) - FloatStrPrecision
    IN  IF k <= 0 THEN n
        ELSE LET p  == Pow10(k)
                 r  == n.lo % p
                 up == 2 * r > p \/ (2 * r = p /\ (n.lo \div p) % 2 = 1)
             IN  Norm(n.hi, n.lo - r + (IF up THEN p ELSE 0))

\* The value float(str(x)) of a float x.
FloatOfStr(n) == IF n.hi < 0 THEN NNeg(RoundPos(NNeg(n))) ELSE RoundPos(n)

---------------------------------------------------------------------------
(* Keys, vectors (the collaborator KeyedVector) and the values of a triple *)

Key(n, f) == [name |-> n, future |-> f]

\* A KeyedVector: its weights (key -> weight) and its configured epsilon.
Vector(w, e) == [w |-> w, epsilon |-> e]

\* The epsilon of a newly made KeyedVector.
VectorEpsilon == 1

\* KeyedVector({key: weight})
SingleWeight(k, x) == [j \in {k} |-> x]

RECURSIVE DotSum(_, _, _)
DotSum(w, s, ks) ==
    IF ks = {} THEN Zero
    ELSE LET k == CHOOSE j \in ks : TRUE
         IN  NAdd(NScale(w[k], s[k]), DotSum(w, s, ks \ {k}))

\* plane * vector: the dot product of the weights with a state vector.
Dot(vec, s) == DotSum(vec.w, s, (DOMAIN vec.w) \cap (DOMAIN s))

\* KeyedVector.changeTense(future, keyList): every key of keyList that the
\* vector holds now refers to the future (or present) version of its variable.
VecChangeTense(vec, future, keyList) ==
    LET moved(k) == IF k \in keyList THEN Key(k.name, future) ELSE k
        newKeys  == {moved(k) : k \in DOMAIN vec.w}
    IN  [vec EXCEPT !.w = [j \in newKeys |->
                              vec.w[CHOOSE k \in DOMAIN vec.w : moved(k) = j]]]

\* KeyedVector.desymbolize(table): a resolved copy (the weights modelled are
\* numbers, which resolution leaves as they are).
VecDesymbolize(vec, table) == Vector(vec.w, vec.epsilon)

\* KeyedVector.__xml__() and KeyedVector(node): the body of a <vector> node
\* and the vector read back from it.
VecXml(vec) == [entries |-> vec.w, epsilon |-> vec.epsilon]

VecParse(body) == Vector(body.entries, body.epsilon)

\* Thresholds: a Python float, a Python int, a string (a symbolic expression
\* still to be resolved), or a list of floats, ints and strings.
FloatThr(n) == [kind |-> "float", num |-> n, list |-> <<>>, sym |-> ""]

IntThr(n) == [kind |-> "int", num |-> n, list |-> <<>>, sym |-> ""]

ListThr(l) == [kind |-> "list", num |-> Zero, list |-> l, sym |-> ""]

SymThr(s) == [kind |-> "sym", num |-> Zero, list |-> <<>>, sym |-> s]

IsNumeric(t) == t.kind \in {"float", "int"}

\* Comparisons: a Python int, or a string marker such as 'switch'.
IntCmp(i) == [type |-> "int", v |-> i, s |-> ""]

StrCmp(m) == [type |-> "str", v |-> 0, s |-> m]

\* float('nan') as a comparison: neither above, below nor equal to 0.
NanCmp == [type |-> "nan", v |-> 0, s |-> ""]

\* An argument left out (None).
NoneArg == [kind |-> "None", type |-> "None"]

DEFAULT_THRESHOLD == FloatThr(Zero)

DEFAULT_COMPARISON == IntCmp(1)

\* A triple (vector, threshold, comparison); the vector is a heap reference.
Triple(v, t, c) == <<v, t, c>>

\* The value None of a cache, and a filled cache.
None == [isNone |-> TRUE, val |-> {}]

Some(x) == [isNone |-> FALSE, val |-> x]

---------------------------------------------------------------------------
(* Results of a call.                                                      *)

RetBool(b) == [kind |-> "bool", val |-> b, err |-> "", ref |-> 0]

RetNone == [kind |-> "None", val |-> FALSE, err |-> "", ref |-> 0]

\* A reference to the test instance made.
RetPlane(i) == [kind |-> "plane", val |-> FALSE, err |-> "", ref |-> i]

Raise(e) == [kind |-> "error", val |-> FALSE, err |-> e, ref |-> 0]

\* What a constructor leaves: an error, or the heap and the new instance.
Failed(e) == [err |-> e, store |-> <<>>, self |-> <<>>]

Built(st, obj) == [err |-> "", store |-> st, self |-> obj]

---------------------------------------------------------------------------
(* str(), float(), int() and eval() on the attributes of a <vector> node   *)

\* The text str() gives: of a float its 12 significant digits, of an int all
\* its digits, of a string the string; of a list the repr() of its elements,
\* which keeps a float exactly and puts a string in quotes.
FloatText(n) == [syntax |-> "float", num |-> n, list |-> <<>>, s |-> ""]

IntText(n) == [syntax |-> "int", num |-> n, list |-> <<>>, s |-> ""]

NameText(s) == [syntax |-> "name", num |-> Zero, list |-> <<>>, s |-> s]

QuotedText(s) == [syntax |-> "quoted", num |-> Zero, list |-> <<>>, s |-> s]

ListText(l) == [syntax |-> "list", num |-> Zero, list |-> l, s |-> ""]

ReprOfScalar(t) ==
    CASE t.kind = "float" -> FloatText(t.num)
      [] t.kind = "int"   -> IntText(t.num)
      [] t.kind = "sym"   -> QuotedText(t.sym)

\* Line 271: str(threshold)
StrOfThreshold(t) ==
    CASE t.kind = "float" -> FloatText(FloatOfStr(t.num))
      [] t.kind = "int"   -> IntText(t.num)
      [] t.kind = "sym"   -> NameText(t.sym)
      [] t.kind = "list"  ->
            ListText([i \in 1..Len(t.list) |-> ReprOfScalar(t.list[i])])

\* Line 272: str(comparison)
StrOfComparison(c) ==
    CASE c.type = "int" -> IntText(NumOf(c.v))
      [] c.type = "str" -> NameText(c.s)
      [] c.type = "nan" -> NameText("nan")

\* The value of a literal inside a list that eval() reads.
EvalScalar(x) ==
    CASE x.syntax = "float"  -> FloatThr(x.num)
      [] x.syntax = "int"    -> IntThr(x.num)
      [] x.syntax = "quoted" -> SymThr(x.s)

\* Lines 285-288: float(text), and eval(text) when float() raises ValueError;
\* a name that eval() cannot resolve raises NameError.
ThresholdOfText(x) ==
    CASE x.syntax \in {"float", "int"} -> [err |-> "", value |-> FloatThr(x.num)]
      [] x.syntax = "list" ->
            [err |-> "",
             value |-> ListThr([i \in 1..Len(x.list) |-> EvalScalar(x.list[i])])]
      [] x.syntax = "name" -> [err |-> "NameError", value |-> SymThr(x.s)]

\* Lines 289-292: int(text), and the text itself when int() raises ValueError.
ComparisonOfText(x) ==
    IF x.syntax = "int" THEN IntCmp(x.num.lo + Limb * x.num.hi) ELSE StrCmp(x.s)

---------------------------------------------------------------------------
(* KeyedPlane: construction                                                *)

\* What __init__ is given as planes: a Node, a KeyedVector or a list.
NodeArg(node) == [isa |-> "Node", node |-> node]

VectorArg(v) == [isa |-> "KeyedVector", vector |-> v]

ListArg(l) == [isa |-> "list", list |-> l]

\* The instance as lines 44-46 leave it.
Plane(planes) ==
    [planes |-> planes, _string |-> None, _keys |-> None, isConjunction |-> TRUE]

\* Whether the instance has the attribute.
HasAttr(obj, name) == name \in DOMAIN obj

\* Lines 277-294, the loop over the children from the i-th on.
RECURSIVE ParseNodes(_, _, _, _)
ParseNodes(st, nodes, i, planes) ==
    IF i > Len(nodes) THEN [err |-> "", store |-> st, planes |-> planes]
    ELSE LET node == nodes[i]
         IN  IF node.nodeType # "ELEMENT_NODE"
             THEN ParseNodes(st, nodes, i + 1, planes)
             ELSE IF node.tagName # "vector"
             THEN [err |-> "AssertionError", store |-> st, planes |-> planes]
             ELSE LET st1        == Append(st, VecParse(node.body))
                      threshold  == ThresholdOfText(node.threshold)
                      comparison == ComparisonOfText(node.comparison)
                  IN  IF threshold.err # ""
                      THEN [err |-> threshold.err, store |-> st, planes |-> planes]
                      ELSE ParseNodes(st1, nodes, i + 1,
                               Append(planes,
                                      Triple(Len(st1), threshold.value, comparison)))

\* Lines 277-294: KeyedPlane.parse
parse(st, element) ==
    IF element.tagName # "plane"
    THEN [err |-> "AssertionError", store |-> st, planes |-> <<>>]
    ELSE ParseNodes(st, element.childNodes, 1, <<>>)

\* A constructor that refuses an empty sequence as it refuses an empty entry.
RECURSIVE AppendPlanesNonEmpty(_, _, _)
AppendPlanesNonEmpty(list, i, planes) ==
    IF Len(list) = 0 THEN [err |-> "ValueError", planes |-> planes]
    ELSE IF i > Len(list) THEN [err |-> "", planes |-> planes]
    ELSE LET plane == list[i]
         IN  IF Len(plane) = 3
             THEN AppendPlanesNonEmpty(list, i + 1, Append(planes, plane))
             ELSE IF Len(plane) = 2
             THEN AppendPlanesNonEmpty(list, i + 1,
                      Append(planes, Triple(plane[1], plane[2], DEFAULT_COMPARISON)))
             ELSE IF Len(plane) = 1
             THEN AppendPlanesNonEmpty(list, i + 1,
                      Append(planes,
                             Triple(plane[1], DEFAULT_THRESHOLD, DEFAULT_COMPARISON)))
             ELSE [err |-> "ValueError", planes |-> planes]

\* Lines 34-43: the loop over the entries of the list from the i-th on.
RECURSIVE AppendPlanes(_, _, _)
AppendPlanes(list, i, planes) ==
    IF i > Len(list) THEN [err |-> "", planes |-> planes]
    ELSE LET plane == list[i]
         IN  IF Len(plane) = 3
             THEN AppendPlanes(list, i + 1, Append(planes, plane))
             ELSE IF Len(plane) = 2
             THEN AppendPlanes(list, i + 1,
                      Append(planes, Triple(plane[1], plane[2], DEFAULT_COMPARISON)))
             ELSE IF Len(plane) = 1
             THEN AppendPlanes(list, i + 1,
                      Append(planes,
                             Triple(plane[1], DEFAULT_THRESHOLD, DEFAULT_COMPARISON)))
             ELSE [err |-> "ValueError", planes |-> planes]

\* Lines 20-46: KeyedPlane.__init__
__init__(st, planes, threshold, comparison) ==
    IF planes.isa = "Node"
    THEN LET r == parse(st, planes.node)
         IN  IF r.err # "" THEN Failed(r.err) ELSE Built(r.store, Plane(r.planes))
    ELSE IF planes.isa = "KeyedVector"
    THEN LET t == IF threshold.kind = "None" THEN DEFAULT_THRESHOLD ELSE threshold
             c == IF comparison.type = "None" THEN DEFAULT_COMPARISON ELSE comparison
         IN  Built(st, Plane(<<Triple(planes.vector, t, c)>>))
    ELSE LET r == AppendPlanes(planes.list, 1, <<>>)
         IN  IF r.err # "" THEN Failed(r.err) ELSE Built(st, Plane(r.planes))

\* Lines 48-55: KeyedPlane.__add__
__add__(st, self, other) ==
    IF self.isConjunction # other.isConjunction THEN Failed("AssertionError")
    ELSE LET r == __init__(st, ListArg(self.planes \o other.planes), NoneArg, NoneArg)
         IN  IF r.err # "" THEN r
             ELSE Built(r.store, [r.self EXCEPT !.isConjunction = self.isConjunction])

\* The keys of the vectors of the triples (lines 59-61).
KeysOfPlanes(st, planes) ==
    UNION { DOMAIN st[planes[i][1]].w : i \in 1..Len(planes) }

\* Lines 57-62: KeyedPlane.keys; the instance afterwards and the set returned.
keys(st, self) ==
    LET after == IF self._keys.isNone
                 THEN [self EXCEPT !._keys = Some(KeysOfPlanes(st, self.planes))]
                 ELSE self
    IN  [self |-> after, result |-> after._keys.val]

---------------------------------------------------------------------------
(* KeyedPlane.evaluate                                                     *)

\* What evaluate is given: a float (used as the total), a state vector, or a
\* state whose product with a vector is a Distribution.
FloatInput(n) == [kind |-> "float", num |-> n, state |-> <<>>, support |-> {}]

VectorInput(s) == [kind |-> "vector", num |-> Zero, state |-> s, support |-> {}]

DistInput(S) == [kind |-> "dist", num |-> Zero, state |-> <<>>, support |-> S]

\* Lines 73-79: the totals the triple's vector yields on the input; more than
\* one only for a Distribution of several elements.
Totals(plane, input) ==
    CASE input.kind = "float"  -> {input.num}
      [] input.kind = "vector" -> {Dot(plane, input.state)}
      [] input.kind = "dist"   -> {Dot(plane, s) : s \in input.support}

\* Python 2 orders a number against a string or a list "consistently but
\* arbitrarily": numbersFirst says whether numbers come first (as in CPython).
\* Line 80: comparison > 0
CmpPositive(c, numbersFirst) ==
    CASE c.type = "int" -> c.v > 0
      [] c.type = "str" -> numbersFirst
      [] c.type = "nan" -> FALSE

\* Line 88: comparison < 0
CmpNegative(c, numbersFirst) ==
    CASE c.type = "int" -> c.v < 0
      [] c.type = "str" -> ~numbersFirst
      [] c.type = "nan" -> FALSE

\* Line 96: comparison == 0
CmpZero(c) == c.type = "int" /\ c.v = 0

\* Line 81: total+plane.epsilon > threshold
AboveTest(total, epsilon, threshold, numbersFirst) ==
    IF IsNumeric(threshold)
    THEN NLess(threshold.num, NAdd(total, NumOf(epsilon)))
    ELSE ~numbersFirst

\* Line 89: total-plane.epsilon < threshold
BelowTest(total, epsilon, threshold, numbersFirst) ==
    IF IsNumeric(threshold)
    THEN NLess(NSub(total, NumOf(epsilon)), threshold.num)
    ELSE numbersFirst

\* Lines 98 and 106: abs(total-t) < plane.epsilon
Near(total, t, epsilon) == NLess(NAbs(NSub(total, t)), NumOf(epsilon))

\* Lines 80-115 for one triple: "pass", "fail", or the error raised.
TripleOutcome(plane, threshold, comparison, total, numbersFirst) ==
    IF CmpPositive(comparison, numbersFirst)
    THEN IF AboveTest(total, plane.epsilon, threshold, numbersFirst)
         THEN "pass" ELSE "fail"
    ELSE IF CmpNegative(comparison, numbersFirst)
    THEN IF BelowTest(total, plane.epsilon, threshold, numbersFirst)
         THEN "pass" ELSE "fail"
    ELSE IF CmpZero(comparison)
    THEN IF threshold.kind = "list"
         THEN IF Len(threshold.list) = 0
              THEN "TypeError"   \* reduce() of an empty sequence
              ELSE IF \E i \in 1..Len(threshold.list) :
                          ~IsNumeric(threshold.list[i])
                   THEN "TypeError"   \* float - str
                   ELSE IF \E i \in 1..Len(threshold.list) :
                          Near(total, threshold.list[i].num, plane.epsilon)
                   THEN "pass" ELSE "fail"
         ELSE IF threshold.kind = "sym"
              THEN "TypeError"   \* float - str
              ELSE IF Near(total, threshold.num, plane.epsilon)
                   THEN "pass" ELSE "fail"
    ELSE "ValueError"            \* line 115

\* A loop's else that passes whatever the test is: the warning of the
\* docstring ("an AND over their results is assumed") taken literally.
NoPlanesMatchedAnd(test) == RetBool(TRUE)

\* Lines 116-121: the else of the loop, reached when no triple decided.
NoPlanesMatched(test) ==
    IF test.isConjunction THEN RetBool(TRUE) ELSE RetBool(FALSE)

\* Lines 72-115: the loop over the triples from the i-th on.
RECURSIVE EvalFrom(_, _, _, _, _)
EvalFrom(st, test, input, numbersFirst, i) ==
    IF i > Len(test.planes)
    THEN NoPlanesMatched(test)
    ELSE LET p      == test.planes[i]
             plane  == st[p[1]]
             totals == Totals(plane, input)
         IN  IF input.kind = "dist" /\ Cardinality(totals) # 1
             THEN Raise("AssertionError")
             ELSE LET total   == CHOOSE t \in totals : TRUE
                      outcome == TripleOutcome(plane, p[2], p[3], total, numbersFirst)
                  IN  IF outcome = "pass"
                      THEN IF ~test.isConjunction
                           THEN RetBool(TRUE)
                           ELSE EvalFrom(st, test, input, numbersFirst, i + 1)
                      ELSE IF outcome = "fail"
                      THEN IF test.isConjunction
                           THEN RetBool(FALSE)
                           ELSE EvalFrom(st, test, input, numbersFirst, i + 1)
                      ELSE Raise(outcome)

\* Lines 64-121: KeyedPlane.evaluate
evaluate(st, test, input, numbersFirst) == EvalFrom(st, test, input, numbersFirst, 1)

---------------------------------------------------------------------------
(* desymbolize, tense, compare, minimize                                   *)

\* Lines 129-134: a string threshold evaluated in the table; an undefined
\* name leaves it as it is.
DesymbolizeString(threshold, table) ==
    IF threshold.sym \in DOMAIN table
    THEN FloatThr(table[threshold.sym])
    ELSE threshold

\* Lines 128-138: KeyedPlane.desymbolizeThreshold
desymbolizeThreshold(threshold, table) ==
    IF threshold.kind = "sym"
    THEN DesymbolizeString(threshold, table)
    ELSE IF threshold.kind = "list"
    THEN ListThr([i \in 1..Len(threshold.list) |->
                     IF threshold.list[i].kind = "sym"
                     THEN DesymbolizeString(threshold.list[i], table)
                     ELSE threshold.list[i]])
    ELSE threshold

\* Lines 124-125: the resolved triples, each with a new vector on the heap.
RECURSIVE DesymbolizePlanes(_, _, _, _, _)
DesymbolizePlanes(st, planes, table, i, out) ==
    IF i > Len(planes) THEN [store |-> st, planes |-> out]
    ELSE LET p   == planes[i]
             st1 == Append(st, VecDesymbolize(st[p[1]], table))
         IN  DesymbolizePlanes(st1, planes, table, i + 1,
                 Append(out, Triple(Len(st1), desymbolizeThreshold(p[2], table), p[3])))

\* Lines 123-126: KeyedPlane.desymbolize
desymbolize(st, self, table) ==
    LET r == DesymbolizePlanes(st, self.planes, table, 1, <<>>)
    IN  __init__(r.store, ListArg(r.planes), NoneArg, NoneArg)

\* Lines 158-159: plane.changeTense(future, keyList) on the vector of every
\* triple from the i-th on; the heap afterwards.
RECURSIVE ChangeVectors(_, _, _, _, _)
ChangeVectors(st, planes, future, keyList, i) ==
    IF i > Len(planes) THEN st
    ELSE ChangeVectors(
             [st EXCEPT ![planes[i][1]] = VecChangeTense(@, future, keyList)],
             planes, future, keyList, i + 1)

\* Lines 154-161: KeyedPlane.changeTense; keyList is a cache (None, or the
\* keys given). The heap and the instance afterwards.
changeTense(st, self, future, keyList) ==
    LET keyed == IF keyList.isNone THEN keys(st, self).result ELSE keyList.val
    IN  [store |-> ChangeVectors(st, self.planes, future, keyed, 1),
         self  |-> [self EXCEPT !._keys = None, !._string = None]]

\* Lines 140-145: KeyedPlane.makeFuture
makeFuture(st, self, keyList) == changeTense(st, self, TRUE, keyList)

\* Lines 147-152: KeyedPlane.makePresent
makePresent(st, self, keyList) == changeTense(st, self, FALSE, keyList)

\* Lines 200-240, for instances that have the attributes vector, threshold
\* and comparison.
CompareAttributes(self, other, value) ==
    IF self.vector = other.vector
    THEN IF self.comparison = 0
         THEN IF other.comparison = 0
              THEN IF NLess(NAbs(NSub(self.threshold, other.threshold)),
                            NumOf(self.vector.epsilon))
                   THEN RetBool(value)
                   ELSE IF value THEN RetBool(FALSE) ELSE RetNone
              ELSE IF cmp(self.threshold, other.threshold) = other.comparison
                   THEN IF value THEN RetNone ELSE RetBool(FALSE)
                   ELSE IF value THEN RetBool(FALSE) ELSE RetNone
         ELSE IF other.comparison = 0
              THEN IF value
                   THEN RetBool(cmp(other.threshold, self.threshold) = self.comparison)
                   ELSE RetNone
              ELSE RetNone
    ELSE RetNone

\* Lines 194-240: KeyedPlane.compare. No KeyedPlane has an attribute vector
\* (__init__ sets planes, _string, _keys and isConjunction), so line 200
\* raises AttributeError.
compare(self, other, value) ==
    IF ~HasAttr(self, "vector") \/ ~HasAttr(other, "vector")
    THEN Raise("AttributeError")
    ELSE CompareAttributes(self, other, value)

\* Lines 242-252: KeyedPlane.minimize. Line 246 reads self.vector; line 247
\* names CONSTANT, which the module neither defines nor imports.
minimize(self) ==
    IF ~HasAttr(self, "vector")
    THEN Raise("AttributeError")
    ELSE Raise("NameError")

---------------------------------------------------------------------------
(* __str__, __xml__ and the helper functions                               *)

\* Line 262: ['==','>','<'][comparison]
ComparisonSymbol(c) ==
    IF c.type # "int" THEN "TypeError"
    ELSE CASE c.v \in {0, 0 - 3} -> "=="
           [] c.v \in {1, 0 - 2} -> ">"
           [] c.v \in {2, 0 - 1} -> "<"
           [] OTHER              -> "IndexError"

\* Lines 256-263: the text of the test: the text of each triple (the weights
\* of its vector, the symbol, str(threshold)), joined by AND or OR.
Rendering(st, self) ==
    [operator |-> IF Len(self.planes) < 2 THEN ""
                  ELSE IF self.isConjunction THEN "AND" ELSE "OR",
     rows |-> [i \in 1..Len(self.planes) |->
                  [weights   |-> st[self.planes[i][1]].w,
                   symbol    |-> ComparisonSymbol(self.planes[i][3]),
                   threshold |-> StrOfThreshold(self.planes[i][2])]]]

\* Lines 254-264: KeyedPlane.__str__; the instance afterwards and the result.
__str__(st, self) ==
    IF ~self._string.isNone
    THEN [self |-> self, err |-> "", result |-> self._string.val]
    ELSE IF \E i \in 1..Len(self.planes) :
               ComparisonSymbol(self.planes[i][3]) \in {"TypeError", "IndexError"}
    THEN LET i == CHOOSE j \in 1..Len(self.planes) :
                    /\ ComparisonSymbol(self.planes[j][3]) \in {"TypeError", "IndexError"}
                    /\ \A h \in 1..(j - 1) :
                          ComparisonSymbol(self.planes[h][3]) \notin {"TypeError", "IndexError"}
         IN  [self |-> self, err |-> ComparisonSymbol(self.planes[i][3]),
              result |-> <<>>]
    ELSE LET text == Rendering(st, self)
         IN  [self |-> [self EXCEPT !._string = Some(text)], err |-> "",
              result |-> text]

\* Lines 266-275: KeyedPlane.__xml__, the root element of the document.
__xml__(st, self) ==
    [tagName |-> "plane",
     childNodes |-> [i \in 1..Len(self.planes) |->
         [nodeType   |-> "ELEMENT_NODE",
          tagName    |-> "vector",
          body       |-> VecXml(st[self.planes[i][1]]),
          threshold  |-> StrOfThreshold(self.planes[i][2]),
          comparison |-> StrOfComparison(self.planes[i][3])]]]

\* KeyedVector({key: 1.}), a new vector on the heap.
NewVector(st, w) == Append(st, Vector(w, VectorEpsilon))

\* Lines 296-301: thresholdRow
thresholdRow(st, key, threshold) ==
    LET st1 == NewVector(st, SingleWeight(key, 1))
    IN  __init__(st1, VectorArg(Len(st1)), threshold, NoneArg)

\* Lines 335-340: equalRow
equalRow(st, key, value) ==
    LET st1 == NewVector(st, SingleWeight(key, 1))
    IN  __init__(st1, VectorArg(Len(st1)), value, IntCmp(0))

\* Lines 347-352: caseRow
caseRow(st, key) ==
    LET st1 == NewVector(st, SingleWeight(key, 1))
    IN  __init__(st1, VectorArg(Len(st1)), IntThr(Zero), StrCmp("switch"))

---------------------------------------------------------------------------
(* The calls. last is the latest call: its name, the instances and the     *)
(* argument it was given, and what it returned or raised; origin records,  *)
(* for every instance, the call that made it.                              *)

MaxTests == 2

MaxPlanes == 2

NoCall == [op |-> "none", self |-> 0, other |-> 0, arg |-> <<>>, result |-> RetNone]

Call(op, self, other, arg, result) ==
    [op |-> op, self |-> self, other |-> other, arg |-> arg, result |-> result]

\* A call that makes an instance, or raises and makes none.
Make(op, self, other, arg, r) ==
    IF r.err # ""
    THEN /\ last' = Call(op, self, other, arg, Raise(r.err))
         /\ UNCHANGED <<store, tests, origin>>
    ELSE /\ store' = r.store
         /\ tests' = Append(tests, r.self)
         /\ origin' = Append(origin, [by |-> op, from |-> <<self, other>>])
         /\ last' = Call(op, self, other, arg, RetPlane(Len(tests) + 1))

X == Key("x", FALSE)

Y == Key("y", FALSE)

RowThresholds == { IntThr(NumOf(5)) }

\* thresholdRow("x", threshold)
ThresholdRow ==
    /\ Len(tests) < MaxTests
    /\ \E threshold \in RowThresholds :
          Make("thresholdRow", 0, 0, threshold, thresholdRow(store, X, threshold))

\* equalRow("x", value)
EqualRow ==
    /\ Len(tests) < MaxTests
    /\ \E value \in RowThresholds :
          Make("equalRow", 0, 0, value, equalRow(store, X, value))

\* caseRow("x")
CaseRow ==
    /\ Len(tests) < MaxTests
    /\ Make("caseRow", 0, 0, <<>>, caseRow(store, X))

\* a + b
Add ==
    /\ Len(tests) < MaxTests
    /\ \E a \in 1..Len(tests), b \in 1..Len(tests) :
          /\ Len(tests[a].planes) + Len(tests[b].planes) <= MaxPlanes
          /\ Make("add", a, b, <<>>, __add__(store, tests[a], tests[b]))

\* a.isConjunction = flag, the assignment by which a caller makes a test
\* disjunctive.
SetIsConjunction ==
    \E a \in 1..Len(tests), flag \in BOOLEAN :
        /\ tests' = [tests EXCEPT ![a].isConjunction = flag]
        /\ last' = Call("isConjunction", a, 0, flag, RetNone)
        /\ UNCHANGED <<store, origin>>

\* a.keys()
Keys ==
    \E a \in 1..Len(tests) :
        LET r == keys(store, tests[a])
        IN  /\ tests' = [tests EXCEPT ![a] = r.self]
            /\ last' = Call("keys", a, 0, <<>>, RetNone)
            /\ UNCHANGED <<store, origin>>

\* str(a)
Str ==
    \E a \in 1..Len(tests) :
        LET r == __str__(store, tests[a])
        IN  /\ tests' = [tests EXCEPT ![a] = r.self]
            /\ last' = Call("str", a, 0, <<>>,
                            IF r.err # "" THEN Raise(r.err) ELSE RetNone)
            /\ UNCHANGED <<store, origin>>

\* The key lists given to the tense calls: none, or the present x.
KeyLists == { None, Some({X}) }

Mutate(op, a, arg, r) ==
    /\ store' = r.store
    /\ tests' = [tests EXCEPT ![a] = r.self]
    /\ last' = Call(op, a, 0, arg, RetNone)
    /\ UNCHANGED origin

\* a.changeTense(future, keyList)
ChangeTense ==
    \E a \in 1..Len(tests), future \in BOOLEAN, keyList \in KeyLists :
        Mutate("changeTense", a, <<future, keyList>>,
               changeTense(store, tests[a], future, keyList))

\* a.makeFuture(keyList)
MakeFuture ==
    \E a \in 1..Len(tests), keyList \in KeyLists :
        Mutate("makeFuture", a, keyList, makeFuture(store, tests[a], keyList))

\* a.makePresent(keyList)
MakePresent ==
    \E a \in 1..Len(tests), keyList \in KeyLists :
        Mutate("makePresent", a, keyList, makePresent(store, tests[a], keyList))

\* a.evaluate(input)
Evaluate(a, input, numbersFirst) ==
    /\ a \in 1..Len(tests)
    /\ last' = Call("evaluate", a, 0, input,
                    evaluate(store, tests[a], input, numbersFirst))
    /\ UNCHANGED <<store, tests, origin>>

HeapInputs ==
    { FloatInput(NumOf(5)), VectorInput([k \in {X} |-> NumOf(7)]) }

EvaluateCall ==
    \E a \in 1..Len(tests), input \in HeapInputs, nf \in BOOLEAN :
        Evaluate(a, input, nf)

\* a.minimize()
Minimize ==
    \E a \in 1..Len(tests) :
        /\ last' = Call("minimize", a, 0, <<>>, minimize(tests[a]))
        /\ UNCHANGED <<store, tests, origin>>

\* a.compare(b, value)
Compare ==
    \E a \in 1..Len(tests), b \in 1..Len(tests), value \in BOOLEAN :
        /\ last' = Call("compare", a, b, value, compare(tests[a], tests[b], value))
        /\ UNCHANGED <<store, tests, origin>>

\* a.desymbolize(table)
Desymbolize(a, table) ==
    /\ a \in 1..Len(tests)
    /\ Make("desymbolize", a, 0, table, desymbolize(store, tests[a], table))

\* KeyedPlane(a.__xml__().documentElement)
XmlParse(a) ==
    /\ a \in 1..Len(tests)
    /\ Make("parse", a, 0, <<>>,
            __init__(store, NodeArg(__xml__(store, tests[a])), NoneArg, NoneArg))

---------------------------------------------------------------------------
(* Spec: instances made by the helper functions and by +, and every call   *)
(* on them.                                                                *)

Init ==
    /\ store = <<>>
    /\ tests = <<>>
    /\ origin = <<>>
    /\ last = NoCall

Next ==
    \/ ThresholdRow
    \/ EqualRow
    \/ CaseRow
    \/ Add
    \/ SetIsConjunction
    \/ Keys
    \/ Str
    \/ ChangeTense
    \/ MakeFuture
    \/ MakePresent
    \/ EvaluateCall
    \/ Minimize
    \/ Compare

Spec == Init /\ [][Next]_vars

\* The calls the caches are claimed to survive: construction, +, keys(),
\* str(), changeTense, makeFuture and makePresent.
NextTense ==
    \/ ThresholdRow
    \/ EqualRow
    \/ CaseRow
    \/ Add
    \/ Keys
    \/ Str
    \/ ChangeTense
    \/ MakeFuture
    \/ MakePresent

SpecTense == Init /\ [][NextTense]_vars

---------------------------------------------------------------------------
(* SpecEval: evaluate as a function of a test and an input.                *)

ABOVE == IntCmp(1)

BELOW == IntCmp(0 - 1)

EQUAL == IntCmp(0)

CONSTANT_KEY == Key("CONSTANT", FALSE)

\* The vectors of the tests drawn: x, x - y and x + 2 (a constant weight).
DrawnStore ==
    << Vector(SingleWeight(X, 1), 1),
       Vector([k \in {X, Y} |-> IF k = X THEN 1 ELSE 0 - 1], 2),
       Vector([k \in {X, CONSTANT_KEY} |-> IF k = X THEN 1 ELSE 2], 1) >>

EvalThresholds ==
    { IntThr(NumOf(5)), FloatThr(NumOf(6)),
      ListThr(<<FloatThr(NumOf(4)), IntThr(NumOf(7))>>) }

\* The triples of the tests evaluated: the vectors x and x - y with every
\* threshold and integer comparison, the triple of caseRow("x"), a NaN
\* comparison, and two triples whose threshold is still symbolic.
EvalTriples ==
    { Triple(v, t, c) : v \in 1..2, t \in EvalThresholds,
                        c \in {ABOVE, BELOW, EQUAL} }
      \cup { Triple(1, IntThr(Zero), StrCmp("switch")),
             Triple(1, IntThr(NumOf(5)), NanCmp),
             Triple(1, SymThr("t"), ABOVE),
             Triple(1, SymThr("t"), EQUAL) }

SeqsUpTo(S, n) == UNION { [1..m -> S] : m \in 0..n }

\* A test as a constructor and an assignment to isConjunction leave it.
Drawn(planes, conj) == [Plane(planes) EXCEPT !.isConjunction = conj]

DrawnOrigin == [by |-> "KeyedPlane", from |-> <<0, 0>>]

EvalStates ==
    { [k \in {X} |-> NumOf(5)], [k \in {X} |-> NumOf(7)],
      [k \in {X, Y} |-> IF k = X THEN NumOf(7) ELSE NumOf(1)],
      [k \in {X, Y} |-> IF k = X THEN NumOf(4) ELSE NumOf(0 - 3)] }

EvalInputs ==
    { FloatInput(NumOf(n)) : n \in 4..9 }
      \cup { VectorInput(s) : s \in EvalStates }
      \cup { DistInput({[k \in {X} |-> NumOf(5)]}),
             DistInput({[k \in {X} |-> NumOf(5)], [k \in {X} |-> NumOf(7)]}) }

InitEval ==
    /\ store = DrawnStore
    /\ \E ps \in SeqsUpTo(EvalTriples, MaxPlanes) \ {<<>>}, conj \in BOOLEAN :
          tests = << Drawn(ps, conj) >>
    /\ origin = << DrawnOrigin >>
    /\ last = NoCall

\* One call on the test drawn.
NextEval ==
    \E input \in EvalInputs, nf \in BOOLEAN :
        last = NoCall /\ Evaluate(1, input, nf)

SpecEval == InitEval /\ [][NextEval]_vars

---------------------------------------------------------------------------
(* SpecCompare: minimize and compare on single-triple tests.               *)

CompareTriples ==
    { Triple(v, t, c) : v \in 1..3, t \in {IntThr(NumOf(5)), FloatThr(NumOf(6))},
                        c \in {ABOVE, BELOW, EQUAL} }

InitCompare ==
    /\ store = DrawnStore
    /\ \E p \in CompareTriples, q \in CompareTriples :
          tests = << Plane(<<p>>), Plane(<<q>>) >>
    /\ origin = << DrawnOrigin, DrawnOrigin >>
    /\ last = NoCall

NextCompare ==
    \/ last = NoCall /\ Minimize
    \/ last = NoCall /\ Compare

SpecCompare == InitCompare /\ [][NextCompare]_vars

---------------------------------------------------------------------------
(* SpecCopy: the copies desymbolize and the XML round trip make of a test. *)

\* 1,000,000,000,005: a whole number of 13 digits.
Big == Norm(1000 * 1000, 5)

CopyTriples ==
    { Triple(1, IntThr(NumOf(5)), ABOVE),
      Triple(1, FloatThr(NumOf(6)), BELOW),
      Triple(2, FloatThr(NumOf(6)), EQUAL),
      Triple(1, FloatThr(Big), ABOVE),
      Triple(1, IntThr(Big), BELOW),
      Triple(1, ListThr(<<FloatThr(NumOf(4)), FloatThr(Big)>>), EQUAL),
      Triple(1, SymThr("t"), ABOVE),
      Triple(1, ListThr(<<SymThr("t"), IntThr(NumOf(7))>>), EQUAL),
      Triple(1, IntThr(Zero), StrCmp("switch")),
      Triple(1, IntThr(NumOf(5)), NanCmp) }

CopyInputs ==
    { FloatInput(NumOf(n)) : n \in 4..8 }
      \cup { FloatInput(NAdd(Big, NumOf(n))) : n \in (0 - 6)..1 }
      \cup { VectorInput(s) : s \in EvalStates }

\* The tables desymbolize is given: an empty one, and t = 5.
Tables == { <<>>, [n \in {"t"} |-> NumOf(5)] }

InitCopy ==
    /\ store = DrawnStore
    /\ \E ps \in SeqsUpTo(CopyTriples, MaxPlanes) \ {<<>>}, conj \in BOOLEAN :
          tests = << Drawn(ps, conj) >>
    /\ origin = << DrawnOrigin >>
    /\ last = NoCall

NextCopy ==
    \/ last = NoCall /\ XmlParse(1)
    \/ \E table \in Tables : last = NoCall /\ Desymbolize(1, table)

SpecCopy == InitCopy /\ [][NextCopy]_vars

---------------------------------------------------------------------------
(* SpecCons: the constructor on a vector, a list and a node.               *)

ConsThresholds == { IntThr(NumOf(5)), SymThr("t") }

ConsComparisons == { BELOW, StrCmp("switch") }

\* The entries of a list: empty, of one, two and three items, and of four.
ConsEntries ==
    { <<>> }
      \cup { <<v>> : v \in 1..2 }
      \cup { <<v, t>> : v \in 1..2, t \in ConsThresholds }
      \cup { <<v, t, c>> : v \in 1..2, t \in ConsThresholds, c \in ConsComparisons }
      \cup { <<1, IntThr(NumOf(5)), BELOW, BELOW>> }

VectorNode(v, t, c) ==
    [nodeType |-> "ELEMENT_NODE", tagName |-> "vector", body |-> VecXml(v),
     threshold |-> t, comparison |-> c]

TextNode ==
    [nodeType |-> "TEXT_NODE", tagName |-> "", body |-> <<>>,
     threshold |-> NameText(""), comparison |-> NameText("")]

ConsNodes ==
    { [tagName |-> "plane", childNodes |-> <<>>],
      [tagName |-> "vector", childNodes |-> <<>>],
      [tagName |-> "plane", childNodes |-> <<TextNode>>],
      [tagName |-> "plane",
       childNodes |-> <<TextNode,
                        VectorNode(DrawnStore[1], FloatText(NumOf(5)), IntText(NumOf(1))),
                        TextNode>>],
      [tagName |-> "plane",
       childNodes |-> <<VectorNode(DrawnStore[1], NameText("t"), IntText(NumOf(1)))>>],
      [tagName |-> "plane",
       childNodes |-> <<[VectorNode(DrawnStore[1], FloatText(NumOf(5)),
                                    NameText("switch")) EXCEPT !.tagName = "entry"]>>] }

\* KeyedPlane(list)
NewFromList ==
    \E list \in SeqsUpTo(ConsEntries, MaxPlanes) :
        Make("KeyedPlane(list)", 0, 0, list,
             __init__(store, ListArg(list), NoneArg, NoneArg))

\* KeyedPlane(vector, threshold, comparison)
NewFromVector ==
    \E v \in 1..Len(store), t \in ConsThresholds \cup {NoneArg},
       c \in ConsComparisons \cup {NoneArg} :
        Make("KeyedPlane(vector)", 0, 0, <<v, t, c>>,
             __init__(store, VectorArg(v), t, c))

\* KeyedPlane(node)
NewFromNode ==
    \E node \in ConsNodes :
        Make("KeyedPlane(node)", 0, 0, node,
             __init__(store, NodeArg(node), NoneArg, NoneArg))

InitCons ==
    /\ store = DrawnStore
    /\ tests = <<>>
    /\ origin = <<>>
    /\ last = NoCall

NextCons ==
    \/ last = NoCall /\ NewFromList
    \/ last = NoCall /\ NewFromVector
    \/ last = NoCall /\ NewFromNode

SpecCons == InitCons /\ [][NextCons]_vars

---------------------------------------------------------------------------
(* The claims.                                                              *)

\* The total of the i-th triple of last's test on last's input (a float or a
\* state vector).
LastTotal(i) ==
    CHOOSE t \in Totals(store[tests[last.self].planes[i][1]], last.arg) : TRUE

LastIsEvaluateOnState ==
    /\ last.op = "evaluate"
    /\ last.arg.kind \in {"float", "vector"}

\* C1 (as claimed): a single-triple ABOVE test with numeric threshold T and
\* epsilon e > 0 is true on every total above T+e and false on the total T
\* (so thresholdRow("x", 5) is true on {x: 7} and false on {x: 5}).
C1_StrictAtThreshold ==
    LastIsEvaluateOnState =>
        LET t == tests[last.self]
            p == t.planes[1]
            e == store[p[1]].epsilon
        IN  (Len(t.planes) = 1 /\ p[3] = ABOVE /\ IsNumeric(p[2]) /\ e > 0)
            => /\ NLess(NAdd(p[2].num, NumOf(e)), LastTotal(1))
                    => last.result = RetBool(TRUE)
               /\ LastTotal(1) = p[2].num
                    => last.result = RetBool(FALSE)

\* A triple the data model allows and that is resolved: an integer comparison
\* with a numeric threshold, or EQUAL with a non-empty list of numbers.
Resolved(p) ==
    /\ p[3] \in {ABOVE, BELOW, EQUAL}
    /\ \/ IsNumeric(p[2])
       \/ /\ p[2].kind = "list"
          /\ p[3] = EQUAL
          /\ Len(p[2].list) > 0
          /\ \A i \in 1..Len(p[2].list) : IsNumeric(p[2].list[i])

\* Whether a total passes a resolved triple, as the comparisons are defined:
\* ABOVE total + e > T, BELOW total - e < T, EQUAL |total - T| < e for the
\* threshold or for some element of the list.
Passes(p, total) ==
    LET e       == NumOf(store[p[1]].epsilon)
        near(T) == NLess(NSub(total, T), e) /\ NLess(NSub(T, total), e)
    IN  CASE p[3] = ABOVE -> NLess(p[2].num, NAdd(total, e))
          [] p[3] = BELOW -> NLess(NSub(total, e), p[2].num)
          [] p[3] = EQUAL ->
                IF p[2].kind = "list"
                THEN \E i \in 1..Len(p[2].list) : near(p[2].list[i].num)
                ELSE near(p[2].num)

SameThreshold(s, t) ==
    \/ IsNumeric(s) /\ IsNumeric(t) /\ s.num = t.num
    \/ ~IsNumeric(s) /\ s = t

SameTriples(st1, a, st2, b) ==
    /\ Len(a.planes) = Len(b.planes)
    /\ \A i \in 1..Len(a.planes) :
          /\ st1[a.planes[i][1]] = st2[b.planes[i][1]]
          /\ SameThreshold(a.planes[i][2], b.planes[i][2])
          /\ a.planes[i][3] = b.planes[i][3]

SameEvaluate(st1, a, st2, b, inputs) ==
    \A input \in inputs, nf \in BOOLEAN :
        evaluate(st1, a, input, nf) = evaluate(st2, b, input, nf)

\* C3 (as claimed): a test with numeric thresholds and integer comparisons,
\* serialized and parsed again, gives a test with the same triple sequence
\* that evaluates as the original does on every input.
C3_RoundTripEvaluatesAlike ==
    (/\ last.op = "parse"
     /\ \A i \in 1..Len(tests[last.self].planes) :
           /\ IsNumeric(tests[last.self].planes[i][2])
           /\ tests[last.self].planes[i][3].type = "int")
    => /\ last.result.kind = "plane"
       /\ SameTriples(store, tests[last.self], store, tests[last.result.ref])
       /\ SameEvaluate(store, tests[last.self], store, tests[last.result.ref],
                       CopyInputs)

\* C4 (as claimed): constructing a test from an empty sequence fails, and no
\* test has an empty sequence of triples.
C4_NoEmptyTest ==
    /\ (last.op = "KeyedPlane(list)" /\ last.arg = <<>>)
          => last.result.kind = "error"
    /\ \A j \in 1..Len(tests) : Len(tests[j].planes) >= 1

\* C4 (amended): constructing a test from a sequence fails, with ValueError
\* and no instance made, exactly when some entry has not one, two or three
\* items; otherwise, the empty sequence included, the test has one triple per
\* entry.
C4_EntriesDecide ==
    last.op = "KeyedPlane(list)" =>
        LET bad == \E i \in 1..Len(last.arg) : Len(last.arg[i]) \notin {1, 2, 3}
        IN  IF bad
            THEN last.result = Raise("ValueError") /\ tests = <<>>
            ELSE /\ last.result = RetPlane(1)
                 /\ Len(tests) = 1
                 /\ Len(tests[1].planes) = Len(last.arg)

\* A test has been constructed from the empty sequence and has no triple.
C4_Witness ==
    /\ last.op = "KeyedPlane(list)"
    /\ last.arg = <<>>
    /\ last.result = RetPlane(1)
    /\ tests[1].planes = <<>>

\* The raw total as the value of evaluate.
RawValue(n) == [kind |-> "raw", num |-> n]

\* C5 (as claimed): evaluate on a test whose first triple has the comparison
\* 'switch' (caseRow) returns that triple's raw total.
C5_SwitchReturnsRawTotal ==
    LastIsEvaluateOnState =>
        (tests[last.self].planes[1][3] = StrCmp("switch")
            => last.result = RawValue(LastTotal(1)))

\* What a test's triples hold: the weights of each vector, the threshold and
\* the comparison.
Content(st, t) ==
    [i \in 1..Len(t.planes) |->
        <<st[t.planes[i][1]].w, t.planes[i][2], t.planes[i][3]>>]

\* C6 (as claimed): a tense call on c = a + b leaves a and b as they were:
\* their triples, the result of keys() and the results of evaluate.
C6_TenseLeavesOperandsAlone ==
    [][(/\ last'.op \in {"changeTense", "makeFuture", "makePresent"}
        /\ origin[last'.self].by = "add")
       => \A k \in 1..2 :
             LET j == origin[last'.self].from[k]
             IN  /\ Content(store', tests'[j]) = Content(store, tests[j])
                 /\ keys(store', tests'[j]).result = keys(store, tests[j]).result
                 /\ SameEvaluate(store', tests'[j], store, tests[j], HeapInputs)
      ]_vars

\* C7 (as claimed): minimize on a single-triple test returns a test without
\* the constant weight, with the threshold less the constant weight and the
\* same comparison, and minimize on that test returns an equal test.
C7_MinimizeIdempotent ==
    (last.op = "minimize" /\ Len(tests[last.self].planes) = 1)
    => /\ last.result.kind = "plane"
       /\ LET p == tests[last.self].planes[1]
              w == store[p[1]].w
              r == tests[last.result.ref]
              q == r.planes[1]
              c == IF CONSTANT_KEY \in DOMAIN w THEN w[CONSTANT_KEY] ELSE 0
          IN  /\ store[q[1]].w = [k \in (DOMAIN w) \ {CONSTANT_KEY} |-> w[k]]
              /\ q[2].num = NSub(p[2].num, NumOf(c))
              /\ q[3] = p[3]
              /\ minimize(r).kind = "plane"

\* C8 (as claimed): compare does not raise; it returns None when the vectors
\* differ; and a boolean it returns is the result of self.evaluate on every
\* total on which other.evaluate is value.
C8_CompareSound ==
    last.op = "compare" =>
        LET self  == tests[last.self]
            other == tests[last.other]
            same  == store[self.planes[1][1]] = store[other.planes[1][1]]
        IN  /\ last.result.kind # "error"
            /\ ~same => last.result = RetNone
            /\ (same /\ last.result.kind = "bool")
                  => \A input \in { FloatInput(NumOf(n)) : n \in 2..9 } :
                        evaluate(store, other, input, TRUE) = RetBool(last.arg)
                           => evaluate(store, self, input, TRUE)
                                 = RetBool(last.result.val)

\* C9 (as claimed): every cached key set is absent or the keys of the vectors
\* now in the triples, and every cached string is absent or the text of the
\* triples as they are now.
C9_CachesCoherent ==
    \A j \in 1..Len(tests) :
        /\ tests[j]._keys.isNone
              \/ tests[j]._keys.val = KeysOfPlanes(store, tests[j].planes)
        /\ tests[j]._string.isNone
              \/ tests[j]._string.val = Rendering(store, tests[j])

\* C10 (as claimed): desymbolize on a test whose thresholds are all numeric
\* returns a new test with the same isConjunction and the same triples, which
\* evaluates as the original does, and leaves the original as it was.
C10_DesymbolizeKeepsMeaning ==
    [][(/\ last'.op = "desymbolize"
        /\ \A i \in 1..Len(tests[last'.self].planes) :
              IsNumeric(tests[last'.self].planes[i][2]))
       => /\ last'.result.kind = "plane"
          /\ LET o == tests[last'.self]
                 r == tests'[last'.result.ref]
             IN  /\ r.isConjunction = o.isConjunction
                 /\ SameTriples(store, o, store', r)
                 /\ SameEvaluate(store, o, store', r, CopyInputs)
                 /\ tests'[last'.self] = o
                 /\ Content(store', o) = Content(store, o)
      ]_vars

====
